---- MODULE Spec2Model ----
(***************************************************************************)
(* mget_rust: a multi-threaded range downloader (src/main.rs).             *)
(*                                                                         *)
(* download() probes the size of the resource, spawns one download_part    *)
(* thread per segment, and then drains one mpsc channel, writing every     *)
(* Downloading event at its offset into the output file.                   *)
(*                                                                         *)
(* Scaling.  u64 values are words modulo WordMod (standing for 2^64), the  *)
(* 8 KiB read buffer holds BufSize bytes, and the byte at offset o of the  *)
(* remote resource is o + 1 (a hole of the output file reads as 0).        *)
(* Arithmetic overflow panics when the build has overflow checks (debug    *)
(* profile) and wraps when it has not (release profile); both builds are   *)
(* modelled, chosen once in Init.                                          *)
(***************************************************************************)
EXTENDS Integers, Sequences, FiniteSets, TLC

\* ---------------------------------------------------------------- bounds
MaxSize == 4
MaxThreads == 2
BufSize == 2
WordMod == 16
\* RunSpec and PlanSpec look one thread and one byte further than Spec: the
\* smallest plan that leaves a byte out has 3 threads and 5 bytes
WideSize == MaxSize + 1
WideThreads == MaxThreads + 1

VARIABLES
    overflow_checks,  \* build profile: TRUE = overflow panics, FALSE = wraps
    threads,          \* the threads argument, coerced to >= 1 at line 147
    file_size,        \* result of get_file_size
    pc,               \* where download() is
    idx,              \* loop variable of the spawn loop
    done_count,       \* line 149
    downloaded,       \* line 167
    chan,             \* the mpsc channel (tx, rx): events in flight
    outfile,          \* [opened, data]: the output file
    result,           \* what download() returned
    part,             \* per thread: state of download_part / download_part_inner
    emitted,          \* history: per thread, the events it passed to tx.send
    recvd,            \* history: per thread, how many of its events rx.recv returned
    doneFrom,         \* history: the idx of every Done the consumer counted
    probe,            \* history: what get_file_size returned (-2: not called, -1: Err)
    threads_arg,      \* history: the threads argument download() was called with
    verbose,          \* the verbose argument
    percent           \* line 180: the percentage last shown (-1: none yet)

vars == <<overflow_checks, threads, file_size, pc, idx, done_count, downloaded,
          chan, outfile, result, part, emitted, recvd, doneFrom, probe,
          threads_arg, verbose, percent>>

\* the thread indices of this run: 0 .. threads-1 with threads coerced to >= 1
Threads == DOMAIN part

Min(a, b) == IF a < b THEN a ELSE b
Max(a, b) == IF a > b THEN a ELSE b

\* ------------------------------------------------------- u64 arithmetic
InU64(x) == x >= 0 /\ x < WordMod
Wrap(x) == x % WordMod

\* ------------------------------------------------------ remote resource
\* the byte the server holds at offset o
Source(o) == o + 1
\* the bytes at offsets from .. from + n - 1
SourceBytes(from, n) == [k \in 1 .. n |-> Source(from + k - 1)]

\* ---------------------------------------------------------------- events
Downloading(i, pos, data) ==
    [type |-> "Downloading", idx |-> i, pos |-> pos, data |-> data, err |-> "none"]
Failed(i, e) ==
    [type |-> "Failed", idx |-> i, pos |-> 0, data |-> <<>>, err |-> e]
Done(i) ==
    [type |-> "Done", idx |-> i, pos |-> 0, data |-> <<>>, err |-> "none"]

\* the error value a failed segment carries
PartError(i, kind) == <<kind, i>>
\* what download() returns: Ok, or an error of its own (no segment: -1)
NoResult == <<"none", -1>>
Ok == <<"Ok", -1>>
OwnError(kind) == <<kind, -1>>

\* the receiver lives from line 148 until download() returns
RxAlive == pc \in {"Spawn", "Running"}

\* senders alive: download()'s own tx and one per running thread
SendersAlive ==
    (IF RxAlive THEN 1 ELSE 0)
    + Cardinality({i \in Threads : part[i].st \in {"get", "reading"}})

\* a channel that hands the newest event out first
SendFront(e) == IF RxAlive THEN <<e>> \o chan ELSE chan
\* tx.send(e): queued when the receiver is alive, an Err otherwise
Send(e) == IF RxAlive THEN Append(chan, e) ELSE chan

\* ------------------------------------------------------------ planning
\* idx as u64 * file_size
PosProduct(i) == i * file_size
\* pos as computed at line 152 (after wrapping)
SegPos(i) == Wrap(PosProduct(i)) \div threads
\* length as computed at lines 153-157
SegLength(i) ==
    IF i = threads - 1 THEN Wrap(file_size - SegPos(i)) ELSE file_size \div threads
PlanOverflows(i) ==
    \/ ~InU64(PosProduct(i))
    \/ (i = threads - 1 /\ ~InU64(file_size - SegPos(i)))

NoPart == [st |-> "unspawned", pos |-> 0, length |-> 0, cur |-> 0, stop |-> 0]

\* ------------------------------------------------------------- the file
\* a write that ignores pos and appends at the end of the file
WriteAtAppend(f, pos, data) == f \o data
\* seek(Start(pos)) then write_all(data): bytes past the old end read as 0
WriteAt(f, pos, data) ==
    IF Len(data) = 0 THEN f
    ELSE [k \in 1 .. Max(Len(f), pos + Len(data)) |->
            IF k - 1 >= pos /\ k - 1 < pos + Len(data) THEN data[k - pos]
            ELSE IF k <= Len(f) THEN f[k] ELSE 0]

\* ----------------------------------------------------------------- Init
\* the indices the loop at line 151 runs over, for a threads argument t
Slots(t) == 0 .. (Max(t, 1) - 1)

InitCommon ==
    /\ threads_arg = threads
    /\ verbose \in BOOLEAN
    /\ percent = -1
    /\ overflow_checks \in BOOLEAN
    /\ idx = 0
    /\ done_count = 0
    /\ downloaded = 0
    /\ chan = <<>>
    /\ outfile = [opened |-> FALSE, data |-> <<>>]
    /\ result = NoResult
    /\ part = [i \in Slots(threads) |-> NoPart]
    /\ emitted = [i \in Slots(threads) |-> <<>>]
    /\ recvd = [i \in Slots(threads) |-> 0]
    /\ doneFrom = <<>>

Init ==
    /\ threads \in 0 .. MaxThreads
    /\ InitCommon
    /\ file_size = 0
    /\ probe = -2
    /\ pc = "Start"

\* ---------------------------------------------------------- download()
\* GetFileSize without the match arm for 0 (line 125)
GetFileSizeNoZeroCheck ==
    /\ pc = "Start"
    /\ \E r \in (-1) .. MaxSize :
        /\ probe' = r
        /\ IF r = -1
           THEN /\ pc' = "Failed"
                /\ result' = OwnError("ProbeError")
                /\ UNCHANGED <<file_size, threads>>
           ELSE /\ file_size' = r
                /\ threads' = Max(threads, 1)
                /\ pc' = "Spawn"
                /\ UNCHANGED result
    /\ UNCHANGED <<verbose, percent, threads_arg, overflow_checks, idx, done_count, downloaded, chan, outfile,
                   part, emitted, recvd, doneFrom>>

\* GetFileSize without std::cmp::max(threads, 1) (line 147)
GetFileSizeNoCoerce ==
    /\ pc = "Start"
    /\ \E r \in (-1) .. MaxSize :
        /\ probe' = r
        /\ IF r = -1
           THEN /\ pc' = "Failed"
                /\ result' = OwnError("ProbeError")
                /\ UNCHANGED <<file_size, threads>>
           ELSE IF r = 0
           THEN /\ pc' = "Failed"
                /\ result' = OwnError("FileSizeIs0")
                /\ UNCHANGED <<file_size, threads>>
           ELSE /\ file_size' = r
                /\ threads' = threads
                /\ pc' = "Spawn"
                /\ UNCHANGED result
    /\ UNCHANGED <<verbose, percent, threads_arg, overflow_checks, idx, done_count, downloaded, chan, outfile,
                   part, emitted, recvd, doneFrom>>

\* lines 124-127 and 147-149: the size probe, then the coercion of threads
GetFileSize ==
    /\ pc = "Start"
    /\ \E r \in (-1) .. MaxSize :
        \* -1: get_file_size returned Err
        /\ probe' = r
        /\ IF r = -1
           THEN /\ pc' = "Failed"
                /\ result' = OwnError("ProbeError")
                /\ UNCHANGED <<file_size, threads>>
           ELSE IF r = 0
           THEN /\ pc' = "Failed"
                /\ result' = OwnError("FileSizeIs0")
                /\ UNCHANGED <<file_size, threads>>
           ELSE /\ file_size' = r
                /\ threads' = Max(threads, 1)
                /\ pc' = "Spawn"
                /\ UNCHANGED result
    /\ UNCHANGED <<verbose, percent, threads_arg, overflow_checks, idx, done_count, downloaded, chan, outfile,
                   part, emitted, recvd, doneFrom>>

\* lines 151-164: one iteration of the spawn loop
Spawn ==
    /\ pc = "Spawn"
    /\ idx < threads
    /\ IF PlanOverflows(idx) /\ overflow_checks
       THEN /\ pc' = "Panicked"
            /\ UNCHANGED <<idx, part>>
       ELSE /\ part' = [part EXCEPT ![idx] =
                          [st |-> "get", pos |-> SegPos(idx), length |-> SegLength(idx),
                           cur |-> SegPos(idx), stop |-> SegPos(idx)]]
            /\ idx' = idx + 1
            /\ UNCHANGED pc
    /\ UNCHANGED <<verbose, percent, threads_arg, overflow_checks, threads, file_size, done_count, downloaded, chan,
                   outfile, result, emitted, recvd, doneFrom, probe>>

\* lines 166-173: after the loop, open the output file
OpenFile ==
    /\ pc = "Spawn"
    /\ idx = threads
    /\ \E ok \in BOOLEAN :
        IF ok
        THEN /\ outfile' = [outfile EXCEPT !.opened = TRUE]
             /\ pc' = "Running"
             /\ UNCHANGED result
        ELSE /\ pc' = "Failed"
             /\ result' = OwnError("OpenError")
             /\ UNCHANGED outfile
    /\ UNCHANGED <<verbose, percent, threads_arg, overflow_checks, threads, file_size, idx, done_count, downloaded,
                   chan, part, emitted, recvd, doneFrom, probe>>

\* ------------------------------------------------------ download_part()
\* the range end of line 77: pos + length - 1
RangeEndOverflows(i) ==
    \/ ~InU64(part[i].pos + part[i].length)
    \/ ~InU64(part[i].pos + part[i].length - 1)
RangeEnd(i) == Wrap(part[i].pos + part[i].length - 1)
\* one past the last offset of the body the server sends for bytes=pos-end:
\* the range clipped to the resource, nothing when end < pos
BodyStop(i) ==
    IF RangeEnd(i) < part[i].pos THEN part[i].pos
    ELSE Max(part[i].pos, Min(RangeEnd(i) + 1, file_size))

\* download_part's Err arm (lines 57-60): send Failed, the thread ends
Fail(i, kind) ==
    /\ chan' = Send(Failed(i, PartError(i, kind)))
    /\ emitted' = [emitted EXCEPT ![i] = Append(@, Failed(i, PartError(i, kind)))]
    /\ part' = [part EXCEPT ![i].st = "ended"]

\* lines 71-86: build the request, send it, look at the status
FetchGet(i) ==
    /\ i \in Threads
    /\ part[i].st = "get"
    /\ IF RangeEndOverflows(i) /\ overflow_checks
       THEN /\ part' = [part EXCEPT ![i].st = "panicked"]
            /\ UNCHANGED <<chan, emitted>>
       ELSE \E outcome \in {"ConnectionReset", "BadStatus", "ok"} :
              IF outcome = "ok"
              THEN /\ part' = [part EXCEPT ![i].st = "reading",
                                           ![i].cur = part[i].pos,
                                           ![i].stop = BodyStop(i)]
                   /\ UNCHANGED <<chan, emitted>>
              ELSE Fail(i, outcome)
    /\ UNCHANGED <<verbose, percent, threads_arg, overflow_checks, threads, file_size, pc, idx, done_count,
                   downloaded, outfile, result, recvd, doneFrom, probe>>

\* FetchRead that ignores the Err of tx.send and goes on reading
FetchReadIgnoresSendError(i) ==
    /\ i \in Threads
    /\ part[i].st = "reading"
    /\ \E n \in (-1) .. Min(BufSize, part[i].stop - part[i].cur) :
        IF n = -1
        THEN Fail(i, "ReadError")
        ELSE IF n = 0
        THEN /\ part[i].cur = part[i].stop
             /\ chan' = Send(Done(i))
             /\ emitted' = [emitted EXCEPT ![i] = Append(@, Done(i))]
             /\ part' = [part EXCEPT ![i].st = "ended"]
        ELSE LET ev == Downloading(i, part[i].cur, SourceBytes(part[i].cur, n)) IN
             /\ chan' = Send(ev)
             /\ emitted' = [emitted EXCEPT ![i] = Append(@, ev)]
             /\ part' = [part EXCEPT ![i].cur = Wrap(@ + n)]
    /\ UNCHANGED <<verbose, percent, threads_arg, overflow_checks, threads, file_size, pc, idx, done_count,
                   downloaded, outfile, result, recvd, doneFrom, probe>>

\* lines 89-103 and 53-56: one iteration of the read loop
FetchRead(i) ==
    /\ i \in Threads
    /\ part[i].st = "reading"
    /\ \E n \in (-1) .. Min(BufSize, part[i].stop - part[i].cur) :
        IF n = -1
        THEN \* response.read returned Err
             Fail(i, "ReadError")
        ELSE IF n = 0
        THEN /\ part[i].cur = part[i].stop
             /\ chan' = Send(Done(i))
             /\ emitted' = [emitted EXCEPT ![i] = Append(@, Done(i))]
             /\ part' = [part EXCEPT ![i].st = "ended"]
        ELSE LET ev == Downloading(i, part[i].cur, SourceBytes(part[i].cur, n)) IN
             IF RxAlive
             THEN /\ chan' = Send(ev)
                  /\ emitted' = [emitted EXCEPT ![i] = Append(@, ev)]
                  /\ part' = [part EXCEPT ![i].cur = Wrap(@ + n)]
             ELSE \* the send fails: line 101, then the Err arm
                  /\ chan' = chan
                  /\ emitted' = [emitted EXCEPT ![i] =
                        Append(Append(@, ev), Failed(i, PartError(i, "SendError")))]
                  /\ part' = [part EXCEPT ![i].st = "ended"]
    /\ UNCHANGED <<verbose, percent, threads_arg, overflow_checks, threads, file_size, pc, idx, done_count,
                   downloaded, outfile, result, recvd, doneFrom, probe>>

\* ------------------------------------------------- the consumer loop
\* lines 180-183: the progress line
Percent(d) == 100 * (d \div file_size)
FilledLength(d) == 50 * (d \div file_size)
\* "-".repeat((50 - filled_length) as usize): the subtraction overflows and
\* panics with overflow checks; without them it wraps and repeat() panics on
\* the capacity
BarPanics(d) == FilledLength(d) > 50

\* OnDownloading with "downloaded = data.len()" for "downloaded += data.len()"
OnDownloadingAssign(e) ==
    /\ downloaded' = Len(e.data)
    /\ percent' = IF verbose THEN Percent(Len(e.data)) ELSE percent
    /\ IF verbose /\ BarPanics(Len(e.data))
       THEN pc' = "Panicked" /\ UNCHANGED <<outfile, result>>
       ELSE \E w \in 0 .. Len(e.data) :
            /\ outfile' = [outfile EXCEPT !.data = WriteAt(@, e.pos, SubSeq(e.data, 1, w))]
            /\ IF w = Len(e.data)
               THEN UNCHANGED <<pc, result>>
               ELSE pc' = "Failed" /\ result' = OwnError("WriteError")
    /\ UNCHANGED <<done_count, doneFrom>>

\* OnFailed that counts the failed segment as finished instead of returning
OnFailedCountsAsDone(e) ==
    /\ done_count' = done_count + 1
    /\ doneFrom' = Append(doneFrom, e.idx)
    /\ IF done_count + 1 = threads
       THEN pc' = "Succeeded" /\ result' = Ok
       ELSE UNCHANGED <<pc, result>>
    /\ UNCHANGED <<downloaded, outfile, percent>>

\* OnDone that leaves the loop one Done early
OnDoneOffByOne(e) ==
    /\ done_count' = done_count + 1
    /\ doneFrom' = Append(doneFrom, e.idx)
    /\ IF done_count + 1 >= threads - 1
       THEN pc' = "Succeeded" /\ result' = Ok
       ELSE UNCHANGED <<pc, result>>
    /\ UNCHANGED <<downloaded, outfile, percent>>

\* OnFailed that remembers the error and goes on with the loop
OnFailedKeepsGoing(e) ==
    /\ result' = e.err
    /\ UNCHANGED <<pc, done_count, doneFrom, downloaded, outfile, percent>>

\* OnFailed that removes the partial output file before it returns
OnFailedRemovesFile(e) ==
    /\ pc' = "Failed"
    /\ result' = e.err
    /\ outfile' = [opened |-> FALSE, data |-> <<>>]
    /\ UNCHANGED <<done_count, doneFrom, downloaded, percent>>

\* lines 177-192
OnDownloading(e) ==
    /\ downloaded' = downloaded + Len(e.data)
    /\ percent' = IF verbose THEN Percent(downloaded + Len(e.data)) ELSE percent
    /\ IF verbose /\ BarPanics(downloaded + Len(e.data))
       THEN pc' = "Panicked" /\ UNCHANGED <<outfile, result>>
       ELSE \E w \in 0 .. Len(e.data) :
            \* w bytes reach the file; fewer than all of them is a seek/write error
            /\ outfile' = [outfile EXCEPT !.data = WriteAt(@, e.pos, SubSeq(e.data, 1, w))]
            /\ IF w = Len(e.data)
               THEN UNCHANGED <<pc, result>>
               ELSE pc' = "Failed" /\ result' = OwnError("WriteError")
    /\ UNCHANGED <<done_count, doneFrom>>

\* lines 193-196
OnFailed(e) ==
    /\ pc' = "Failed"
    /\ result' = e.err
    /\ UNCHANGED <<done_count, doneFrom, downloaded, outfile, percent>>

\* lines 197-202, then 209-219
OnDone(e) ==
    /\ done_count' = done_count + 1
    /\ doneFrom' = Append(doneFrom, e.idx)
    /\ IF done_count + 1 = threads
       THEN pc' = "Succeeded" /\ result' = Ok
       ELSE UNCHANGED <<pc, result>>
    /\ UNCHANGED <<downloaded, outfile, percent>>

\* lines 175-207: rx.recv() and the match on what it returned
Recv ==
    /\ pc = "Running"
    /\ IF chan # <<>>
       THEN LET e == Head(chan) IN
            /\ chan' = Tail(chan)
            /\ recvd' = [recvd EXCEPT ![e.idx] = @ + 1]
            /\ CASE e.type = "Downloading" -> OnDownloading(e)
                 [] e.type = "Failed" -> OnFailed(e)
                 [] e.type = "Done" -> OnDone(e)
       ELSE \* recv blocks while a sender is alive, and is Err once none is
            /\ SendersAlive = 0
            /\ pc' = "Failed"
            /\ result' = OwnError("RecvError")
            /\ UNCHANGED <<chan, recvd, done_count, doneFrom, downloaded, outfile, percent>>
    /\ UNCHANGED <<verbose, threads_arg, overflow_checks, threads, file_size, idx, part,
                   emitted, probe>>

Next ==
    \/ GetFileSize
    \/ Spawn
    \/ OpenFile
    \/ Recv
    \/ \E i \in Threads : FetchGet(i)
    \/ \E i \in Threads : FetchRead(i)

Spec == Init /\ [][Next]_vars

\* Every thread is an OS thread that the scheduler keeps running, and every
\* network call returns: each step that can be taken is eventually taken.
FairSpec ==
    /\ Spec
    /\ WF_vars(GetFileSize)
    /\ WF_vars(Spawn)
    /\ WF_vars(OpenFile)
    /\ WF_vars(Recv)
    /\ \A i \in 0 .. (MaxThreads - 1) : WF_vars(FetchGet(i)) /\ WF_vars(FetchRead(i))

\* The planning loop alone, for every u64 file size: download() stands in
\* front of the loop (line 151) with the size probed and threads coerced.
InitPlan ==
    /\ threads \in 1 .. WideThreads
    /\ InitCommon
    /\ file_size \in 1 .. (WordMod - 1)
    /\ probe = file_size
    /\ pc = "Spawn"

PlanSpec == InitPlan /\ [][Spawn]_vars

\* download() from the spawn loop on (the probe has returned a size > 0 and
\* threads is coerced), one thread and one byte further than Spec.
InitRun ==
    /\ threads \in 1 .. WideThreads
    /\ InitCommon
    /\ file_size \in 1 .. WideSize
    /\ probe = file_size
    /\ pc = "Spawn"

NextRun ==
    \/ Spawn
    \/ OpenFile
    \/ Recv
    \/ \E i \in Threads : FetchGet(i)
    \/ \E i \in Threads : FetchRead(i)

RunSpec == InitRun /\ [][NextRun]_vars

\* ====================================================================
\* Properties
\* ====================================================================
Terminal == {"Succeeded", "Failed"}
\* the planning loop has run to its end
Planned == pc \in {"Spawn", "Running", "Succeeded", "Failed"} /\ file_size > 0 /\ idx = threads
Spawned == 0 .. (threads - 1)
\* thread i passed a Failed event to tx.send
EmittedFailed(i) == \E k \in 1 .. Len(emitted[i]) : emitted[i][k].type = "Failed"
EmittedDone(i) == \E k \in 1 .. Len(emitted[i]) : emitted[i][k].type = "Done"
\* the consumer dequeued a Failed event
FailedDequeued ==
    \E i \in Threads : \E k \in 1 .. Min(recvd[i], Len(emitted[i])) :
        emitted[i][k].type = "Failed"

\* C1: the planned segments start at 0, each ends where the next starts, and
\* the last ends at file_size, so they are sorted, disjoint and cover
\* [0, file_size) without a gap.
C1_SegmentsCover ==
    Planned =>
        /\ part[0].pos = 0
        /\ \A i \in 0 .. (threads - 2) : part[i].pos + part[i].length = part[i + 1].pos
        /\ part[threads - 1].pos + part[threads - 1].length = file_size

\* C2: when download() returns Ok the output file is file_size bytes long and
\* holds the source's byte at every offset.
C2_FileIsSource ==
    pc = "Succeeded" =>
        /\ Len(outfile.data) = file_size
        /\ \A o \in 0 .. (file_size - 1) : outfile.data[o + 1] = Source(o)

\* C3: once a segment has failed (its thread emitted Failed), download() never
\* returns Ok, and whatever it returns is an error.
C3_FailureNeverSucceeds ==
    (\E i \in Threads : EmittedFailed(i)) =>
        /\ pc # "Succeeded"
        /\ result # Ok
        /\ (pc \in Terminal => result # NoResult)
C3_Witness ==
    /\ pc = "Failed"
    /\ threads >= 2
    /\ done_count = threads - 1
    /\ \E i \in Spawned :
        /\ result = PartError(i, "BadStatus")
        /\ \A j \in Spawned \ {i} : EmittedDone(j)

\* C4: Succeeded is reached only with done_count = threads and no Failed
\* dequeued; done_count never exceeds threads and every Done counted comes
\* from a different segment.
C4_SuccessNeedsAllDone ==
    /\ (pc = "Succeeded" => done_count = threads /\ ~FailedDequeued)
    /\ done_count <= threads
    /\ Len(doneFrom) = done_count
    /\ \A a, b \in 1 .. Len(doneFrom) : a # b => doneFrom[a] # doneFrom[b]
C4_Witness ==
    pc = "Succeeded" /\ threads >= 2 /\ done_count = threads /\ downloaded > 0

\* C5: a probed size of 0 makes download() fail with the empty-resource
\* error, with no thread spawned and no output file opened.
C5_ZeroSizeFails ==
    probe = 0 =>
        /\ pc = "Failed"
        /\ result = OwnError("FileSizeIs0")
        /\ \A i \in Threads : part[i].st = "unspawned"
        /\ outfile = [opened |-> FALSE, data |-> <<>>]
        /\ chan = <<>>
C5_Witness == probe = 0 /\ pc = "Failed" /\ threads > 0

\* C6: when download() returns Ok, downloaded equals file_size.
C6_DownloadedIsSize == pc = "Succeeded" => downloaded = file_size

\* C7: downloaded never decreases: dequeuing a Downloading event adds exactly
\* the length of its data, every other step leaves it unchanged.
C7_DownloadedMonotone ==
    [][ /\ downloaded' >= downloaded
        /\ IF pc = "Running" /\ chan # <<>> /\ recvd' # recvd /\ Head(chan).type = "Downloading"
           THEN downloaded' = downloaded + Len(Head(chan).data)
           ELSE downloaded' = downloaded ]_vars
C7_Witness ==
    /\ pc = "Failed"
    /\ downloaded >= BufSize + 1
    /\ done_count >= 1
    /\ FailedDequeued

\* the events of thread i are Downloading events, each at the offset where the
\* one before ended, the first at the segment's start, then at most one
\* terminal event, which is the last
ChunksThenTerminal(i) ==
    \A k \in 1 .. Len(emitted[i]) :
        /\ emitted[i][k].type # "Downloading" => k = Len(emitted[i])
        /\ emitted[i][k].type = "Downloading" =>
            /\ Len(emitted[i][k].data) > 0
            /\ emitted[i][k].pos =
                 (IF k = 1 THEN part[i].pos
                  ELSE emitted[i][k - 1].pos + Len(emitted[i][k - 1].data))
\* the events of thread i still in the channel, in channel order
InChannel(i) == SelectSeq(chan, LAMBDA e : e.idx = i)
\* C8: per segment, contiguous Downloading events from the segment's start,
\* then exactly one terminal event once the thread is over; the consumer gets
\* them in that order.
C8_EventProtocol ==
    \A i \in Threads :
        /\ ChunksThenTerminal(i)
        /\ part[i].st \in {"ended", "panicked"} =>
             /\ Len(emitted[i]) > 0
             /\ emitted[i][Len(emitted[i])].type \in {"Done", "Failed"}
        /\ RxAlive => InChannel(i) = SubSeq(emitted[i], recvd[i] + 1, Len(emitted[i]))

\* C9: once the consumer loop runs, download() eventually returns.
C9_Terminates == (pc = "Running") ~> (pc \in Terminal)

\* C10: exactly threads segments; segment i starts at floor(i * file_size /
\* threads); a non-last segment is floor(file_size / threads) long and the last
\* one runs to file_size.
C10_PlanFormula ==
    /\ pc # "Panicked"
    /\ \A i \in 0 .. (idx - 1) :
        /\ part[i].pos = (i * file_size) \div threads
        /\ part[i].length =
             (IF i = threads - 1 THEN file_size - part[i].pos ELSE file_size \div threads)
    /\ \A i \in Threads : part[i].st # "unspawned" <=> i < idx
    /\ idx <= threads

\* C11: a threads argument of 0 is coerced to 1 before the loop; with one
\* thread exactly one segment is spawned, it is [0, file_size), and Succeeded
\* takes exactly one Done.
C11_SingleThread ==
    /\ (pc # "Start" /\ probe > 0) => threads = (IF threads_arg = 0 THEN 1 ELSE threads_arg)
    /\ (threads_arg <= 1 /\ probe > 0) =>
        /\ pc # "Panicked"
        /\ idx <= 1
        /\ \A i \in Threads : i # 0 => part[i].st = "unspawned"
        /\ part[0].st # "unspawned" =>
             /\ part[0].pos = 0
             /\ part[0].length = file_size
             /\ part[0].st = "reading" => part[0].stop = file_size
        /\ pc \in {"Running", "Succeeded"} => part[0].st # "unspawned"
        /\ pc = "Succeeded" <=> done_count = 1
C11_Witness ==
    /\ threads_arg = 0
    /\ pc = "Succeeded"
    /\ done_count = 1
    /\ file_size = MaxSize
    /\ outfile.data = SourceBytes(0, file_size)

\* every thread of the run is over (it returned or it panicked)
AllThreadsOver == \A i \in Threads : part[i].st \in {"ended", "panicked"}
\* C12: when every thread is over and the channel is empty while download()
\* is still in its loop, rx.recv() returns and download() can take the step
\* that ends it in Failed; it does not wait.
C12_ClosedChannelFails ==
    (pc = "Running" /\ chan = <<>> /\ AllThreadsOver) => ENABLED Recv

\* what the consumer owns: its counters, the file and its result
ConsumerState == <<pc, result, done_count, doneFrom, downloaded, outfile, recvd>>
\* the consumer dequeues a Failed event in this step
DequeuesFailed ==
    pc = "Running" /\ chan # <<>> /\ recvd' # recvd /\ Head(chan).type = "Failed"
\* C13: the step that dequeues a Failed event ends download() in Failed with
\* exactly that event's error, and from Failed on the consumer handles no
\* event: it dequeues nothing, counts nothing, writes nothing and keeps its
\* result.
C13_FirstFailureWins ==
    [][ /\ DequeuesFailed => (pc' = "Failed" /\ result' = Head(chan).err)
        /\ pc = "Failed" => (ConsumerState' = ConsumerState /\ chan' = chan) ]_vars
C13_Witness ==
    /\ pc = "Failed"
    /\ \E i, j \in Threads :
        /\ i # j
        /\ EmittedFailed(i)
        /\ EmittedFailed(j)
        /\ result = emitted[i][Len(emitted[i])].err
        /\ result # emitted[j][Len(emitted[j])].err
        /\ recvd[i] = Len(emitted[i])
        /\ \E k \in 1 .. Len(chan) : chan[k] = emitted[j][Len(emitted[j])]

\* the consumer dequeues a Downloading event in this step
DequeuesDownloading ==
    pc = "Running" /\ chan # <<>> /\ recvd' # recvd /\ Head(chan).type = "Downloading"
\* download() opens the output file in this step
OpensFile == pc = "Spawn" /\ idx = threads /\ pc' = "Running"
\* C14: handling a Failed event leaves the output file alone, in Failed the
\* file never changes again, and the file changes only in steps of download()
\* itself (the open and the write of a dequeued Downloading event), never in a
\* step of a download_part thread.
C14_FileLeftAsIs ==
    [][ /\ DequeuesFailed => outfile' = outfile
        /\ pc = "Failed" => outfile' = outfile
        /\ outfile' # outfile => ((OpensFile \/ DequeuesDownloading) /\ part' = part) ]_vars
C14_Witness ==
    /\ pc = "Failed"
    /\ FailedDequeued
    /\ Len(outfile.data) > 0
    /\ \E i \in Threads : part[i].st = "reading" /\ part[i].cur < part[i].stop

\* C15: the output file is opened before any thread is spawned, so when the
\* open fails no thread has been started.
C15_OpenBeforeSpawn ==
    /\ (\E i \in Threads : part[i].st # "unspawned") => outfile.opened
    /\ result = OwnError("OpenError") => \A i \in Threads : part[i].st = "unspawned"

\* C16: with verbose set, the percentage shown after a Downloading event is
\* floor(100 * downloaded / file_size).
C16_PercentFormula ==
    (verbose /\ percent # -1) => percent = (100 * downloaded) \div file_size

\* thread i is over
Over(i) == part[i].st \in {"ended", "panicked"}
\* thread i is past its GET and in the read loop
Reading(i) == part[i].st = "reading"
\* the last two events of thread i: the Downloading event whose send failed,
\* then Failed with the send error
SendFailedAt(i, k) == emitted[i][k].type = "Failed" /\ emitted[i][k].err[1] = "SendError"
AbortedOnSend(i) ==
    /\ Len(emitted[i]) >= 2
    /\ SendFailedAt(i, Len(emitted[i]))
    /\ emitted[i][Len(emitted[i]) - 1].type = "Downloading"
\* C17: once the receiver is gone, a step of a thread in its read loop is its
\* last (one read, then the thread is over) and queues nothing; a thread whose
\* send failed has emitted nothing after that but Failed; and every thread is
\* eventually over once download() has returned.
C17_AbortOnSendError ==
    /\ [][ \A i \in Threads :
            (~RxAlive /\ Reading(i) /\ part'[i] # part[i]) =>
                (Over(i)' /\ chan' = chan /\ part'[i].cur = part[i].cur) ]_vars
    /\ [](\A i \in Threads :
            (\E k \in 1 .. Len(emitted[i]) : SendFailedAt(i, k))
                => (Over(i) /\ AbortedOnSend(i)))
    /\ (pc \in Terminal ~> (\A i \in Threads : Over(i) \/ part[i].st = "unspawned"))
C17_Witness ==
    /\ pc \in Terminal
    /\ \A i \in Threads : Over(i)
    /\ \E i \in Threads : AbortedOnSend(i) /\ part[i].cur < part[i].stop

\* C18: every segment handed to a thread has at least one byte, so the range
\* end pos + length - 1 of line 77 stays within u64 and is not before pos.
C18_SegmentsNonEmpty ==
    \A i \in Threads :
        part[i].st # "unspawned" =>
            /\ part[i].length >= 1
            /\ ~RangeEndOverflows(i)
            /\ RangeEnd(i) >= part[i].pos

\* the bytes carried by the Downloading events among the first k events of
\* thread i
RECURSIVE ChunkBytes(_, _)
ChunkBytes(i, k) ==
    IF k = 0 THEN 0
    ELSE ChunkBytes(i, k - 1)
         + (IF emitted[i][k].type = "Downloading" THEN Len(emitted[i][k].data) ELSE 0)
\* the same over the threads 0 .. n - 1
RECURSIVE EmittedBytes(_)
EmittedBytes(n) ==
    IF n = 0 THEN 0 ELSE EmittedBytes(n - 1) + ChunkBytes(n - 1, Len(emitted[n - 1]))
\* the file holds the data of event e at e.pos
InFile(e) ==
    /\ Len(outfile.data) >= e.pos + Len(e.data)
    /\ \A j \in 1 .. Len(e.data) : outfile.data[e.pos + j] = e.data[j]
\* C19: when download() succeeds no event is left in the channel, the
\* consumer has dequeued every event every thread emitted, the bytes it
\* counted are the bytes of the emitted chunks (each counted once), and the
\* file holds every chunk at the chunk's offset.
C19_ChunksWrittenOnce ==
    pc = "Succeeded" =>
        /\ chan = <<>>
        /\ \A i \in Threads : recvd[i] = Len(emitted[i])
        /\ downloaded = EmittedBytes(threads)
        /\ \A i \in Threads : \A k \in 1 .. Len(emitted[i]) :
                emitted[i][k].type = "Downloading" => InFile(emitted[i][k])
C19_Witness ==
    /\ pc = "Succeeded"
    /\ threads = 2
    /\ \A i \in Threads : Len(emitted[i]) >= 3
    /\ doneFrom = <<1, 0>>
    /\ downloaded = file_size

\* the file f after the chunks among the first k events of thread i are
\* written to it, in the order the thread emitted them
RECURSIVE ApplyChunks(_, _, _)
ApplyChunks(f, i, k) ==
    IF k = 0 THEN f
    ELSE IF emitted[i][k].type = "Downloading"
         THEN WriteAt(ApplyChunks(f, i, k - 1), emitted[i][k].pos, emitted[i][k].data)
         ELSE ApplyChunks(f, i, k - 1)
\* the file written segment after segment by the threads 0 .. n - 1: one
\* fixed order of the writes, whatever order the events arrived in
RECURSIVE CanonicalFile(_)
CanonicalFile(n) ==
    IF n = 0 THEN <<>>
    ELSE ApplyChunks(CanonicalFile(n - 1), n - 1, Len(emitted[n - 1]))
\* no server sent more than the length of the segment asked for
BodyAtMostLength == \A i \in Threads : part[i].stop <= part[i].pos + part[i].length
\* the byte offsets event e writes
Written(e) == e.pos .. (e.pos + Len(e.data) - 1)
====
